---- MODULE Spec2Model ----
(***************************************************************************)
(* Model of CostOptimizer (src/streamlit/src/ai/llm/optimizer.py): the     *)
(* daily quota gate, the usage tracker, the complexity scorer and the      *)
(* prompt budgeter.                                                        *)
(*                                                                         *)
(* Python dicts are functions whose DOMAIN is the set of keys present.     *)
(* Dates are day numbers.  Scores are Python floats; they are modelled as  *)
(* exact rationals in fixed point, one unit being 1/120 (penalties are     *)
(* tenths, factor counts are 1, 2 or 4, and the average divides by 3, so   *)
(* every division of the scorer is exact in this unit).  token_buffer is   *)
(* held in tenths, complexity_threshold in hundredths, cost in whole money *)
(* units.                                                                  *)
(***************************************************************************)
EXTENDS Integers, Sequences, FiniteSets, TLC

VARIABLES
    usage_history,         \* self.usage_history: date -> record
    last_reset,            \* self.last_reset
    max_daily_requests,    \* self.max_daily_requests
    token_buffer,          \* self.token_buffer, in tenths
    complexity_threshold,  \* self.complexity_threshold, in hundredths
    today,                 \* what datetime.now().date() returns
    lastOp,                \* the operation that ran last
    ret_should,            \* value returned by the last should_use_llm
    ret_stats,             \* value returned by the last get_usage_stats
    branch,                \* branch the last should_use_llm returned from
    complexity_score,      \* complexity_score of the last scoring, in 1/120
    tracked,               \* history variable: per date, the track_usage calls made
    data,                  \* scorer input
    tech_score,            \* scorer: technical sub-score, in 1/120
    content_score,         \* scorer: content sub-score, in 1/120
    backlink_score,        \* scorer: backlink sub-score, in 1/120
    prompt,                \* budgeter input
    max_tokens,            \* budgeter input
    ret_prompt,            \* value returned by the last optimize_prompt
    serialized,            \* callers guard check -> enrichment -> track with one lock
    lock,                  \* the caller holding that lock, 0 when free
    pc,                    \* each caller's position in its sequence
    caller_today,          \* each caller's local 'today' inside track_usage
    caller_requests        \* each caller's value read for 'requests += 1'

vars == <<usage_history, last_reset, max_daily_requests, token_buffer,
          complexity_threshold, today, lastOp, ret_should, ret_stats, branch,
          complexity_score, tracked, data, tech_score, content_score,
          backlink_score, prompt, max_tokens, ret_prompt, serialized, lock, pc,
          caller_today, caller_requests>>

configVars == <<max_daily_requests, token_buffer, complexity_threshold>>
scorerVars == <<data, tech_score, content_score, backlink_score>>
budgeterVars == <<prompt, max_tokens, ret_prompt>>
callerVars == <<serialized, lock, pc, caller_today, caller_requests>>

(***************************************************************************)
(* Bounds of the model.                                                    *)
(***************************************************************************)
MaxQuota == 2      \* max_requests_per_day ranges over 1..MaxQuota
MaxDay == 1        \* dates are 0..MaxDay
MaxTrack == 3      \* track_usage calls in one run
MaxPromptLen == 9  \* every prompt over Chars of length 0..MaxPromptLen
MaxBudget == 3     \* max_tokens ranges over 0..MaxBudget (and 100)
MaxCallers == 2    \* concurrent callers are 1..MaxCallers

Dates == 0..MaxDay
Callers == 1..MaxCallers
TokensUsedValues == {-1, 0, 2}  \* tokens_used offered to track_usage
CostValues == {-1, 3}           \* cost offered to track_usage

(***************************************************************************)
(* Dict helpers.                                                           *)
(***************************************************************************)
EmptyDict == [k \in {} |-> 0]

\* d.get(k, default)
Get(d, k, default) == IF k \in DOMAIN d THEN d[k] ELSE default

\* d[k] = v
Put(d, k, v) == [x \in DOMAIN d \cup {k} |-> IF x = k THEN v ELSE d[x]]

ZeroRecord == [requests |-> 0, tokens |-> 0, cost |-> 0]

(***************************************************************************)
(* Complexity scorer.  A penalty of n tenths is n * 12 units of 1/120.     *)
(***************************************************************************)
Penalty(tenths) == tenths * 12

\* Python's truth value of a string: "" (and the None default) is falsy.
Falsy(s) == Len(s) = 0

RECURSIVE SumOver(_, _)
\* sum(d[k] for k in keys)
SumOver(d, keys) ==
    IF keys = {} THEN 0
    ELSE LET k == CHOOSE x \in keys : TRUE
         IN d[k] + SumOver(d, keys \ {k})

\* sum(d.values())
SumValues(d) == SumOver(d, DOMAIN d)

RECURSIVE SumSeq(_)
\* sum(list)
SumSeq(s) == IF s = <<>> THEN 0 ELSE Head(s) + SumSeq(Tail(s))

\* The meta-tags block of _calculate_technical_complexity: <<score, factors>> added.
MetaTagsPart(tech_data) ==
    IF "meta_tags" \in DOMAIN tech_data
    THEN LET meta_tags == tech_data["meta_tags"]
             s1 == IF Falsy(Get(meta_tags, "meta_description", ""))
                   THEN Penalty(8) ELSE 0
             s2 == IF Len(Get(meta_tags, "title", "")) > 60
                   THEN Penalty(6) ELSE 0
         IN <<s1 + s2, 2>>
    ELSE <<0, 0>>

\* The headings block of _calculate_technical_complexity: <<score, factors>> added.
HeadingsPart(tech_data) ==
    IF "headings" \in DOMAIN tech_data
    THEN LET headings == tech_data["headings"]
             s1 == IF Get(headings, "h1", 0) # 1 THEN Penalty(7) ELSE 0
             s2 == IF SumValues(headings) > 15 THEN Penalty(5) ELSE 0
         IN <<s1 + s2, 2>>
    ELSE <<0, 0>>

calculate_technical_complexity(tech_data) ==
    LET m == MetaTagsPart(tech_data)
        h == HeadingsPart(tech_data)
        score == m[1] + h[1]
        factors == m[2] + h[2]
    IN IF factors > 0 THEN score \div factors ELSE 0

\* The content-length block of _calculate_content_complexity.
ContentLengthPart(content_data) ==
    IF "content" \in DOMAIN content_data
    THEN LET content == content_data["content"]
             word_count == Get(content, "word_count", 0)
             s == IF word_count > 1000 THEN Penalty(8)
                  ELSE IF word_count < 300 THEN Penalty(6)
                  ELSE 0
         IN <<s, 1>>
    ELSE <<0, 0>>

\* The structure block of _calculate_content_complexity.
StructurePart(content_data) ==
    IF "paragraphs" \in DOMAIN Get(content_data, "content", EmptyDict)
    THEN LET s == IF content_data["content"]["paragraphs"] > 10
                  THEN Penalty(7) ELSE 0
         IN <<s, 1>>
    ELSE <<0, 0>>

calculate_content_complexity(content_data) ==
    LET c == ContentLengthPart(content_data)
        p == StructurePart(content_data)
        score == c[1] + p[1]
        factors == c[2] + p[2]
    IN IF factors > 0 THEN score \div factors ELSE 0

calculate_backlink_complexity(moz_data) ==
    LET total_links == Get(Get(moz_data, "metrics", EmptyDict), "total_links", 0)
        s1 == IF total_links < 10 THEN Penalty(9)
              ELSE IF total_links > 50 THEN Penalty(5)
              ELSE 0
        spam_score == Get(Get(moz_data, "metrics", EmptyDict), "spam_score", 0)
        s2 == IF spam_score > 20 THEN Penalty(7) ELSE 0
        score == s1 + s2
        factors == 1 + 1
    IN IF factors > 0 THEN score \div factors ELSE 0

\* The list complexity_scores that _calculate_complexity builds.
complexity_scores(d) ==
    << calculate_technical_complexity(Get(d, "technical_seo", EmptyDict)),
       calculate_content_complexity(Get(d, "scraped_data", EmptyDict)),
       calculate_backlink_complexity(Get(d, "moz_data", EmptyDict)) >>

\* _calculate_complexity averaging over the sections present in the input only.
calculate_complexity_present_only(d) ==
    LET scores == complexity_scores(d)
        present == Cardinality(DOMAIN d \cap {"technical_seo", "scraped_data", "moz_data"})
    IN IF present > 0 THEN SumSeq(scores) \div present ELSE 0

calculate_complexity(d) ==
    LET scores == complexity_scores(d)
    IN IF Len(scores) > 0 THEN SumSeq(scores) \div Len(scores) ELSE 0

(***************************************************************************)
(* Analysis inputs: nested dicts with every section and every key          *)
(* optional, and values on both sides of every threshold the scorer tests. *)
(***************************************************************************)
Title60 == "Sixty character page title used as the boundary case of leng"
Title61 == "Sixty character page title used as the boundary case of lengs"

\* Every dict over at most the keys k1, k2 with values from V1, V2.
OptDicts2(k1, V1, k2, V2) ==
    {EmptyDict}
    \cup {k1 :> v1 : v1 \in V1}
    \cup {k2 :> v2 : v2 \in V2}
    \cup {(k1 :> v1) @@ (k2 :> v2) : v1 \in V1, v2 \in V2}

MetaTagsDicts == OptDicts2("meta_description", {"", "An SEO dashboard"},
                           "title", {"", Title60, Title61})
HeadingsDicts == OptDicts2("h1", {0, 1, 2}, "h2", {3, 14, 15})
TechnicalSeoDicts == OptDicts2("meta_tags", MetaTagsDicts, "headings", HeadingsDicts)

ContentDicts == OptDicts2("word_count", {299, 300, 1000, 1001}, "paragraphs", {10, 11})
ScrapedDataDicts == {EmptyDict} \cup {"content" :> c : c \in ContentDicts}

MetricsDicts == OptDicts2("total_links", {5, 9, 10, 50, 51}, "spam_score", {20, 21})
MozDataDicts == {EmptyDict} \cup {"metrics" :> m : m \in MetricsDicts}

\* Each top-level section, absent or present.
TechnicalSeoOptions == {EmptyDict} \cup {"technical_seo" :> t : t \in TechnicalSeoDicts}
ScrapedDataOptions == {EmptyDict} \cup {"scraped_data" :> c : c \in ScrapedDataDicts}
MozDataOptions == {EmptyDict} \cup {"moz_data" :> z : z \in MozDataDicts}

\* The input of spec section 8.3: only moz_data.metrics.total_links = 5.
OnlyTotalLinks5 == "moz_data" :> ("metrics" :> ("total_links" :> 5))

\* Inputs offered to the gate: no section, one section and all sections, with
\* complexity on both sides of complexity_threshold * 0.8.
GateInputs ==
    { EmptyDict,
      "moz_data" :> ("metrics" :> (("total_links" :> 10) @@ ("spam_score" :> 20))),
      "technical_seo" :> ("meta_tags" :> ("title" :> Title61)),
      ("technical_seo" :> (("meta_tags" :> EmptyDict) @@ ("headings" :> EmptyDict)))
         @@ ("scraped_data" :> ("content" :> EmptyDict))
         @@ ("moz_data" :> EmptyDict) }

(***************************************************************************)
(* Quota gate and usage tracker.                                           *)
(***************************************************************************)
MaxDailyRequestsValues == 1..MaxQuota
TokenBufferValues == {9, 10}             \* 0.9 (the default) and 1.0
ComplexityThresholdValues == {20, 50}    \* 0.2 (the default) and 0.5

\* _check_daily_quota with '<=' for '<'.
check_daily_quota_off_by_one ==
    LET current_requests == Get(Get(usage_history, today, EmptyDict), "requests", 0)
    IN current_requests <= max_daily_requests

check_daily_quota ==
    LET current_requests == Get(Get(usage_history, today, EmptyDict), "requests", 0)
    IN current_requests < max_daily_requests

\* The decision of should_use_llm with the low-complexity branch skipping the run.
complexity_decision_gating(score) ==
    IF score * 100 * 10 > complexity_threshold * 8 * 120
    THEN <<"required", TRUE>>
    ELSE <<"forced", FALSE>>

\* The if/else that ends should_use_llm: <<branch taken, value returned>>.
\* score / 120 > (complexity_threshold / 100) * 0.8, cross-multiplied.
complexity_decision(score) ==
    IF score * 100 * 10 > complexity_threshold * 8 * 120
    THEN <<"required", TRUE>>
    ELSE <<"forced", TRUE>>

\* track_usage keeping yesterday's records on a new day.
reset_daily_tracking_keeping_history ==
    IF today > last_reset
    THEN <<usage_history, today>>
    ELSE <<usage_history, last_reset>>

\* track_usage clearing the history on a new day without advancing last_reset.
reset_daily_tracking_stale_last_reset ==
    IF today > last_reset
    THEN <<EmptyDict, last_reset>>
    ELSE <<usage_history, last_reset>>

\* "Reset daily tracking if needed": <<usage_history, last_reset>> after it.
reset_daily_tracking ==
    IF today > last_reset
    THEN <<EmptyDict, today>>
    ELSE <<usage_history, last_reset>>

\* "Update usage stats" overwriting the totals instead of adding to them.
update_usage_stats_overwriting(history, tokens_used, cost) ==
    Put(history, today, [requests |-> 1, tokens |-> tokens_used, cost |-> cost])

\* "Update usage stats": the history after the record of today is created if
\* missing and incremented.
update_usage_stats(history, tokens_used, cost) ==
    LET h == IF today \notin DOMAIN history
             THEN Put(history, today, ZeroRecord)
             ELSE history
    IN Put(h, today, [requests |-> h[today].requests + 1,
                      tokens |-> h[today].tokens + tokens_used,
                      cost |-> h[today].cost + cost])

\* ret_should, branch, complexity_score and ret_stats hold what the operation
\* that ran last returned and logged, and their initial values otherwise.
NoShouldOutput == ret_should' = FALSE /\ branch' = "none" /\ complexity_score' = 0
NoStatsOutput == ret_stats' = ZeroRecord

\* No caller is running.
NoCallers ==
    /\ serialized = TRUE
    /\ lock = 0
    /\ pc = [c \in Callers |-> "idle"]
    /\ caller_today = [c \in Callers |-> 0]
    /\ caller_requests = [c \in Callers |-> 0]

\* Number of track_usage calls made so far.
TrackCalls == SumOver([d \in Dates |-> tracked[d].requests], Dates)

\* History variable: one more call on date d with these arguments.
Tracked(d, tokens_used, cost) ==
    [tracked EXCEPT ![d] = [requests |-> @.requests + 1,
                            tokens |-> @.tokens + tokens_used,
                            cost |-> @.cost + cost]]

TrackUsage ==
    /\ TrackCalls < MaxTrack
    /\ \E tokens_used \in TokensUsedValues, cost \in CostValues :
         LET r == reset_daily_tracking
         IN /\ usage_history' = update_usage_stats(r[1], tokens_used, cost)
            /\ last_reset' = r[2]
            /\ tracked' = Tracked(today, tokens_used, cost)
    /\ lastOp' = "track_usage"
    /\ NoShouldOutput /\ NoStatsOutput
    /\ UNCHANGED <<configVars, today, scorerVars, budgeterVars, callerVars>>

\* should_use_llm applying the day rollover before it reads the quota.
ShouldUseLlmResetting ==
    /\ \E d \in GateInputs :
         IF ~check_daily_quota
         THEN /\ ret_should' = FALSE
              /\ branch' = "quota"
              /\ complexity_score' = 0
         ELSE LET score == calculate_complexity(d)
                  decision == complexity_decision(score)
              IN /\ complexity_score' = score
                 /\ branch' = decision[1]
                 /\ ret_should' = decision[2]
    /\ usage_history' = reset_daily_tracking[1]
    /\ last_reset' = reset_daily_tracking[2]
    /\ lastOp' = "should_use_llm"
    /\ NoStatsOutput
    /\ UNCHANGED <<configVars, today, tracked, scorerVars, budgeterVars, callerVars>>

ShouldUseLlm ==
    /\ \E d \in GateInputs :
         IF ~check_daily_quota
         THEN /\ ret_should' = FALSE
              /\ branch' = "quota"
              /\ complexity_score' = 0
         ELSE LET score == calculate_complexity(d)
                  decision == complexity_decision(score)
              IN /\ complexity_score' = score
                 /\ branch' = decision[1]
                 /\ ret_should' = decision[2]
    /\ lastOp' = "should_use_llm"
    /\ NoStatsOutput
    /\ UNCHANGED <<usage_history, last_reset, configVars, today, tracked,
                   scorerVars, budgeterVars, callerVars>>

GetUsageStats ==
    /\ ret_stats' = Get(usage_history, today, ZeroRecord)
    /\ lastOp' = "get_usage_stats"
    /\ NoShouldOutput
    /\ UNCHANGED <<usage_history, last_reset, configVars, today, tracked,
                   scorerVars, budgeterVars, callerVars>>

\* The calendar date moves forward between two operations.
AdvanceDate ==
    /\ \E d \in Dates : d > today /\ today' = d
    /\ lastOp' = "advance_date"
    /\ NoShouldOutput /\ NoStatsOutput
    /\ UNCHANGED <<usage_history, last_reset, configVars, tracked, scorerVars,
                   budgeterVars, callerVars>>

\* State after CostOptimizer(config) on date 0.
Init ==
    /\ max_daily_requests \in MaxDailyRequestsValues
    /\ token_buffer = 9
    /\ complexity_threshold \in ComplexityThresholdValues
    /\ usage_history = EmptyDict
    /\ today = 0
    /\ last_reset = today
    /\ lastOp = "init"
    /\ ret_should = FALSE
    /\ ret_stats = ZeroRecord
    /\ branch = "none"
    /\ complexity_score = 0
    /\ tracked = [d \in Dates |-> ZeroRecord]
    /\ data = EmptyDict
    /\ tech_score = 0
    /\ content_score = 0
    /\ backlink_score = 0
    /\ prompt = <<>>
    /\ max_tokens = 0
    /\ ret_prompt = <<>>
    /\ NoCallers

Next == TrackUsage \/ ShouldUseLlm \/ GetUsageStats \/ AdvanceDate

Spec == Init /\ [][Next]_vars

(***************************************************************************)
(* The scorer alone: every analysis input, scored once.                    *)
(***************************************************************************)
InitComplexity ==
    /\ \E t \in TechnicalSeoOptions, c \in ScrapedDataOptions, z \in MozDataOptions :
         data = t @@ c @@ z
    /\ max_daily_requests = 100
    /\ token_buffer = 9
    /\ complexity_threshold = 20
    /\ usage_history = EmptyDict
    /\ today = 0
    /\ last_reset = today
    /\ lastOp = "init"
    /\ ret_should = FALSE
    /\ ret_stats = ZeroRecord
    /\ branch = "none"
    /\ complexity_score = 0
    /\ tracked = [d \in Dates |-> ZeroRecord]
    /\ tech_score = 0
    /\ content_score = 0
    /\ backlink_score = 0
    /\ prompt = <<>>
    /\ max_tokens = 0
    /\ ret_prompt = <<>>
    /\ NoCallers

\* _calculate_complexity(data): the three sub-scores it logs and the average
\* it returns.
CalculateComplexity ==
    /\ lastOp = "init"
    /\ tech_score' = complexity_scores(data)[1]
    /\ content_score' = complexity_scores(data)[2]
    /\ backlink_score' = complexity_scores(data)[3]
    /\ complexity_score' = calculate_complexity(data)
    /\ lastOp' = "calculate_complexity"
    /\ UNCHANGED <<usage_history, last_reset, configVars, today, ret_should,
                   ret_stats, branch, tracked, data, budgeterVars, callerVars>>

NextComplexity == CalculateComplexity

SpecComplexity == InitComplexity /\ [][NextComplexity]_vars

(***************************************************************************)
(* Prompt budgeter.  A prompt is a sequence of characters.                 *)
(***************************************************************************)
Chars == {"a", "b"}

\* A prompt of n characters that is not constant.
PatternPrompt(n) == [i \in 1..n |-> IF i % 3 = 0 THEN "b" ELSE "a"]

\* Longer prompts, among them the 1000 characters of spec section 8.5.
LongPrompts == {PatternPrompt(n) : n \in {12, 17, 23, 40, 1000}}

MaxTokensValues == 0..MaxBudget \cup {100}

\* Python's int() of the non-integral quotient num / den (den > 0): rounds
\* toward zero.
IntTrunc(num, den) ==
    IF num >= 0 THEN num \div den ELSE -((-num) \div den)

\* Python's s[:n].
SliceTo(s, n) ==
    IF n >= 0
    THEN SubSeq(s, 1, IF n < Len(s) THEN n ELSE Len(s))
    ELSE SubSeq(s, 1, IF Len(s) + n > 0 THEN Len(s) + n ELSE 0)

estimate_tokens(text) == Len(text) \div 4

\* optimize_prompt truncating without the token_buffer margin.
optimize_prompt_no_buffer(p, m) ==
    LET estimated_tokens == estimate_tokens(p)
    IN IF estimated_tokens <= m
       THEN p
       ELSE SliceTo(p, IntTrunc(Len(p) * m, estimated_tokens))

\* optimize_prompt aiming one token above the budget.
optimize_prompt_budget_plus_one(p, m) ==
    LET estimated_tokens == estimate_tokens(p)
    IN IF estimated_tokens <= m
       THEN p
       ELSE SliceTo(p, IntTrunc(Len(p) * (m + 1) * token_buffer, estimated_tokens * 10))

\* ratio = max_tokens / estimated_tokens is kept as that fraction:
\* len(prompt) * ratio * token_buffer
\*   = (len(prompt) * max_tokens * tenths) / (estimated_tokens * 10).
optimize_prompt(p, m) ==
    LET estimated_tokens == estimate_tokens(p)
    IN IF estimated_tokens <= m
       THEN p
       ELSE LET truncate_length ==
                    IntTrunc(Len(p) * m * token_buffer, estimated_tokens * 10)
            IN SliceTo(p, truncate_length)

InitPrompt ==
    /\ \/ \E n \in 0..MaxPromptLen : prompt \in [1..n -> Chars]
       \/ prompt \in LongPrompts
    /\ max_tokens \in MaxTokensValues
    /\ token_buffer \in {5} \cup TokenBufferValues
    /\ max_daily_requests = 100
    /\ complexity_threshold = 20
    /\ usage_history = EmptyDict
    /\ today = 0
    /\ last_reset = today
    /\ lastOp = "init"
    /\ ret_should = FALSE
    /\ ret_stats = ZeroRecord
    /\ branch = "none"
    /\ complexity_score = 0
    /\ tracked = [d \in Dates |-> ZeroRecord]
    /\ data = EmptyDict
    /\ tech_score = 0
    /\ content_score = 0
    /\ backlink_score = 0
    /\ ret_prompt = <<>>
    /\ NoCallers

OptimizePrompt ==
    /\ lastOp = "init"
    /\ ret_prompt' = optimize_prompt(prompt, max_tokens)
    /\ lastOp' = "optimize_prompt"
    /\ UNCHANGED <<usage_history, last_reset, configVars, today, ret_should,
                   ret_stats, branch, complexity_score, tracked, scorerVars,
                   prompt, max_tokens, callerVars>>

NextPrompt == OptimizePrompt

SpecPrompt == InitPrompt /\ [][NextPrompt]_vars

\* optimize_prompt called again on what it returned, with the same max_tokens.
OptimizeAgain ==
    /\ lastOp = "optimize_prompt"
    /\ prompt' = ret_prompt
    /\ ret_prompt' = optimize_prompt(ret_prompt, max_tokens)
    /\ lastOp' = "optimize_again"
    /\ UNCHANGED <<usage_history, last_reset, configVars, today, ret_should,
                   ret_stats, branch, complexity_score, tracked, scorerVars,
                   max_tokens, callerVars>>

NextPromptTwice == OptimizePrompt \/ OptimizeAgain

SpecPromptTwice == InitPrompt /\ [][NextPromptTwice]_vars

(***************************************************************************)
(* Concurrent callers.  Each caller runs should_use_llm, then the          *)
(* enrichment call, then track_usage if should_use_llm returned True.      *)
(* When serialized, one lock guards that whole sequence; otherwise callers *)
(* interleave, also between the read and the write of 'requests += 1'.     *)
(* The date may advance between any two steps.                             *)
(***************************************************************************)
CallerTokensUsed == {2}  \* tokens_used the enrichment reports
CallerCost == {3}        \* cost the enrichment reports

\* Callers inside their sequence.
Running == {c \in Callers : pc[c] # "idle"}

\* The caller enters its sequence, taking the lock when callers serialize.
CallerBegin(c) ==
    /\ pc[c] = "idle"
    /\ TrackCalls + Cardinality(Running) < MaxTrack
    /\ IF serialized THEN lock = 0 /\ lock' = c ELSE lock' = lock
    /\ pc' = [pc EXCEPT ![c] = "check"]
    /\ UNCHANGED <<usage_history, last_reset, configVars, today, lastOp,
                   ret_should, ret_stats, branch, complexity_score, tracked,
                   scorerVars, budgeterVars, serialized, caller_today,
                   caller_requests>>

\* should_use_llm(data); a refused caller leaves its sequence.
CallerCheck(c) ==
    /\ pc[c] = "check"
    /\ \E d \in GateInputs :
         LET approved == IF ~check_daily_quota
                         THEN FALSE
                         ELSE complexity_decision(calculate_complexity(d))[2]
         IN /\ ret_should' = approved
            /\ pc' = [pc EXCEPT ![c] = IF approved THEN "enrich" ELSE "idle"]
            /\ lock' = IF ~approved /\ lock = c THEN 0 ELSE lock
    /\ lastOp' = "should_use_llm"
    /\ UNCHANGED <<usage_history, last_reset, configVars, today, ret_stats,
                   branch, complexity_score, tracked, scorerVars, budgeterVars,
                   serialized, caller_today, caller_requests>>

\* The enrichment call, made outside the optimizer.
CallerEnrich(c) ==
    /\ pc[c] = "enrich"
    /\ pc' = [pc EXCEPT ![c] = "track"]
    /\ UNCHANGED <<usage_history, last_reset, configVars, today, lastOp,
                   ret_should, ret_stats, branch, complexity_score, tracked,
                   scorerVars, budgeterVars, serialized, lock, caller_today,
                   caller_requests>>

\* track_usage up to the read of 'requests += 1': today is taken, the history
\* is reset on a new day, today's record is created if missing, requests read.
CallerTrackRead(c) ==
    /\ pc[c] = "track"
    /\ LET r == reset_daily_tracking
           h == IF today \notin DOMAIN r[1] THEN Put(r[1], today, ZeroRecord) ELSE r[1]
       IN /\ usage_history' = h
          /\ last_reset' = r[2]
          /\ caller_today' = [caller_today EXCEPT ![c] = today]
          /\ caller_requests' = [caller_requests EXCEPT ![c] = h[today].requests]
    /\ pc' = [pc EXCEPT ![c] = "store"]
    /\ UNCHANGED <<configVars, today, lastOp, ret_should, ret_stats, branch,
                   complexity_score, tracked, scorerVars, budgeterVars,
                   serialized, lock>>

\* track_usage from the write of 'requests += 1' to its end; the caller then
\* leaves its sequence.  When another caller has reset the history meanwhile,
\* the write lands in the dropped record and the next lookup finds no key.
CallerTrackWrite(c) ==
    /\ pc[c] = "store"
    /\ \E tokens_used \in CallerTokensUsed, cost \in CallerCost :
         LET t == caller_today[c]
         IN /\ usage_history' =
                  IF t \in DOMAIN usage_history
                  THEN Put(usage_history, t,
                           [requests |-> caller_requests[c] + 1,
                            tokens |-> usage_history[t].tokens + tokens_used,
                            cost |-> usage_history[t].cost + cost])
                  ELSE usage_history
            /\ tracked' = Tracked(t, tokens_used, cost)
    /\ pc' = [pc EXCEPT ![c] = "idle"]
    /\ lock' = IF lock = c THEN 0 ELSE lock
    /\ lastOp' = "track_usage"
    /\ UNCHANGED <<last_reset, configVars, today, ret_should, ret_stats, branch,
                   complexity_score, scorerVars, budgeterVars, serialized,
                   caller_today, caller_requests>>

InitCallers ==
    /\ max_daily_requests \in MaxDailyRequestsValues
    /\ token_buffer = 9
    /\ complexity_threshold = 20
    /\ usage_history = EmptyDict
    /\ today = 0
    /\ last_reset = today
    /\ lastOp = "init"
    /\ ret_should = FALSE
    /\ ret_stats = ZeroRecord
    /\ branch = "none"
    /\ complexity_score = 0
    /\ tracked = [d \in Dates |-> ZeroRecord]
    /\ data = EmptyDict
    /\ tech_score = 0
    /\ content_score = 0
    /\ backlink_score = 0
    /\ prompt = <<>>
    /\ max_tokens = 0
    /\ ret_prompt = <<>>
    /\ serialized \in BOOLEAN
    /\ lock = 0
    /\ pc = [c \in Callers |-> "idle"]
    /\ caller_today = [c \in Callers |-> 0]
    /\ caller_requests = [c \in Callers |-> 0]

NextCallers ==
    \/ \E c \in Callers : CallerBegin(c)
    \/ \E c \in Callers : CallerCheck(c)
    \/ \E c \in Callers : CallerEnrich(c)
    \/ \E c \in Callers : CallerTrackRead(c)
    \/ \E c \in Callers : CallerTrackWrite(c)
    \/ AdvanceDate

SpecCallers == InitCallers /\ [][NextCallers]_vars

(***************************************************************************)
(* Properties of the quota gate and the usage tracker, under Spec.         *)
(***************************************************************************)

\* Some earlier date has track_usage calls: the date has rolled over.
RolledOver == \E d \in Dates : d < today /\ tracked[d].requests > 0

\* Today's request count as the code reads it.
RequestsToday == Get(Get(usage_history, today, EmptyDict), "requests", 0)

\* C1 (quota boundary): should_use_llm returns true on a date exactly while
\* fewer than max_requests_per_day track_usage calls were made on that date,
\* and false once that many or more were made, whatever the input.
QuotaBoundary ==
    lastOp = "should_use_llm" =>
        (ret_should <=> tracked[today].requests < max_daily_requests)

\* should_use_llm has just refused at exactly max_requests_per_day calls today.
QuotaBoundaryWitness ==
    /\ lastOp = "should_use_llm"
    /\ ~ret_should
    /\ tracked[today].requests = max_daily_requests

\* C2 (day rollover): once the date has advanced past a date with usage and
\* before any track_usage on the new date, get_usage_stats returns zeros and
\* should_use_llm is not refused; the first track_usage(t, c) on the new date
\* leaves exactly one record, requests = 1, tokens = t, cost = c.
DayRollover ==
    /\ (lastOp = "get_usage_stats" /\ RolledOver /\ tracked[today].requests = 0)
          => ret_stats = ZeroRecord
    /\ (lastOp = "should_use_llm" /\ RolledOver /\ tracked[today].requests = 0)
          => (ret_should /\ branch # "quota")
    /\ (lastOp = "track_usage" /\ RolledOver /\ tracked[today].requests = 1)
          => /\ DOMAIN usage_history = {today}
             /\ usage_history[today] = [requests |-> 1,
                                        tokens |-> tracked[today].tokens,
                                        cost |-> tracked[today].cost]

\* The first track_usage on a new date, after two or more calls on an earlier
\* date, with non-zero arguments.
DayRolloverWitness ==
    /\ lastOp = "track_usage"
    /\ tracked[today].requests = 1
    /\ tracked[today].tokens # 0
    /\ tracked[today].cost # 0
    /\ \E d \in Dates : d < today /\ tracked[d].requests >= 2

\* C3 (fail-open gate): whenever today's quota is not exhausted,
\* should_use_llm returns true, also for inputs whose complexity is at or
\* below complexity_threshold * 0.8.
FailOpenGate ==
    (lastOp = "should_use_llm" /\ RequestsToday < max_daily_requests) => ret_should

\* should_use_llm has just approved an input whose complexity is at or below
\* complexity_threshold * 0.8.
FailOpenGateWitness ==
    /\ lastOp = "should_use_llm"
    /\ ret_should
    /\ branch = "forced"
    /\ complexity_score * 100 * 10 <= complexity_threshold * 8 * 120

\* C4 (accumulation): after k track_usage calls on a date, get_usage_stats
\* returns requests = k and the sums of the tokens and costs passed, and the
\* record of that date holds the same right after each call.
UsageAccumulates ==
    /\ lastOp = "get_usage_stats" => ret_stats = tracked[today]
    /\ lastOp = "track_usage" => usage_history[today] = tracked[today]

\* get_usage_stats has just returned the totals of two or more calls.
UsageAccumulatesWitness ==
    /\ lastOp = "get_usage_stats"
    /\ ret_stats.requests >= 2
    /\ ret_stats.tokens > 0
    /\ ret_stats.cost > 0

\* C5 (frame): should_use_llm and get_usage_stats leave usage_history and
\* last_reset unchanged, only track_usage changes them, and no operation
\* changes max_requests_per_day, token_buffer or complexity_threshold.
ReadsLeaveUsageState ==
    [][ /\ (lastOp' \in {"should_use_llm", "get_usage_stats"}
              => UNCHANGED <<usage_history, last_reset>>)
        /\ (~UNCHANGED <<usage_history, last_reset>> => lastOp' = "track_usage")
        /\ UNCHANGED configVars ]_vars

\* should_use_llm has just run after the date rolled over, and yesterday's
\* record is still in the history.
ReadsLeaveUsageStateWitness ==
    /\ lastOp = "should_use_llm"
    /\ today > last_reset
    /\ last_reset \in DOMAIN usage_history

\* C9 (negative usage is rejected): the cumulative tokens and cost of every
\* record stay non-negative after any sequence of track_usage calls.
NegativeUsageRejected ==
    \A d \in DOMAIN usage_history :
        usage_history[d].tokens >= 0 /\ usage_history[d].cost >= 0

\* C10 (single-day history): the history holds a record for at most one
\* date, that date is last_reset, and right after track_usage it is today.
SingleDayHistory ==
    /\ Cardinality(DOMAIN usage_history) <= 1
    /\ DOMAIN usage_history \subseteq {last_reset}
    /\ lastOp = "track_usage" => DOMAIN usage_history = {today}

\* track_usage has just run for the second time on a date that followed a
\* date with usage.
SingleDayHistoryWitness ==
    /\ lastOp = "track_usage"
    /\ RolledOver
    /\ tracked[today].requests = 2

(***************************************************************************)
(* Properties of the complexity scorer, under SpecComplexity.  The         *)
(* reference below restates section 4.1 of the specification: penalties in *)
(* tenths and the number of applicable factors, per sub-score.             *)
(***************************************************************************)
Section(name) == Get(data, name, EmptyDict)
MetaTags == Get(Section("technical_seo"), "meta_tags", EmptyDict)
Headings == Get(Section("technical_seo"), "headings", EmptyDict)
Content == Get(Section("scraped_data"), "content", EmptyDict)
Metrics == Get(Section("moz_data"), "metrics", EmptyDict)

HasMetaTags == "meta_tags" \in DOMAIN Section("technical_seo")
HasHeadings == "headings" \in DOMAIN Section("technical_seo")
HasContent == "content" \in DOMAIN Section("scraped_data")
HasParagraphs == "paragraphs" \in DOMAIN Content

RefTechnicalFactors == (IF HasMetaTags THEN 2 ELSE 0) + (IF HasHeadings THEN 2 ELSE 0)
RefTechnicalTenths ==
    (IF HasMetaTags /\ Get(MetaTags, "meta_description", "") = "" THEN 8 ELSE 0)
    + (IF HasMetaTags /\ Len(Get(MetaTags, "title", "")) >= 61 THEN 6 ELSE 0)
    + (IF HasHeadings /\ Get(Headings, "h1", 0) \notin {1} THEN 7 ELSE 0)
    + (IF HasHeadings /\ Get(Headings, "h1", 0) + Get(Headings, "h2", 0) >= 16
       THEN 5 ELSE 0)

RefContentFactors == (IF HasContent THEN 1 ELSE 0) + (IF HasParagraphs THEN 1 ELSE 0)
RefContentTenths ==
    (IF HasContent /\ Get(Content, "word_count", 0) >= 1001 THEN 8 ELSE 0)
    + (IF HasContent /\ Get(Content, "word_count", 0) <= 299 THEN 6 ELSE 0)
    + (IF HasParagraphs /\ Content["paragraphs"] >= 11 THEN 7 ELSE 0)

RefBacklinkTenths ==
    (IF Get(Metrics, "total_links", 0) <= 9 THEN 9 ELSE 0)
    + (IF Get(Metrics, "total_links", 0) >= 51 THEN 5 ELSE 0)
    + (IF Get(Metrics, "spam_score", 0) >= 21 THEN 7 ELSE 0)

\* C6 (complexity averaging): the complexity is (technical + content +
\* backlink) / 3, always three terms; each sub-score is its penalties divided
\* by its applicable factors (technical 2 per present meta_tags / headings,
\* content 1 for content plus 1 for a paragraph count, backlink always 2);
\* only moz_data.metrics.total_links = 5 scores 0, 0, 0.45 and 0.15 overall.
\* Scores are in 1/120: a tenth is 12, 0.45 is 54, 0.15 is 18.
ComplexityAveraging ==
    lastOp = "calculate_complexity" =>
        /\ complexity_score * 3 = tech_score + content_score + backlink_score
        /\ tech_score * RefTechnicalFactors = RefTechnicalTenths * 12
        /\ RefTechnicalFactors = 0 => tech_score = 0
        /\ content_score * RefContentFactors = RefContentTenths * 12
        /\ RefContentFactors = 0 => content_score = 0
        /\ backlink_score * 2 = RefBacklinkTenths * 12
        /\ data = OnlyTotalLinks5 =>
              /\ tech_score = 0
              /\ content_score = 0
              /\ backlink_score = 54
              /\ complexity_score = 18

\* The input with only moz_data.metrics.total_links = 5 has been scored.
ComplexityAveragingWitness ==
    /\ lastOp = "calculate_complexity"
    /\ data = OnlyTotalLinks5
    /\ complexity_score = 18

\* C7 (absent sections score zero): a missing technical_seo, scraped_data or
\* moz_data section gives its sub-score 0, and the empty input complexity 0.
AbsentSectionsScoreZero ==
    lastOp = "calculate_complexity" =>
        /\ "technical_seo" \notin DOMAIN data => tech_score = 0
        /\ "scraped_data" \notin DOMAIN data => content_score = 0
        /\ "moz_data" \notin DOMAIN data => backlink_score = 0
        /\ DOMAIN data = {} => complexity_score = 0

(***************************************************************************)
(* Properties of the prompt budgeter, under SpecPrompt.                    *)
(***************************************************************************)

\* s is the first k characters of p.
IsPrefixOfLength(s, p, k) ==
    /\ Len(s) = k
    /\ k <= Len(p)
    /\ \A i \in 1..k : s[i] = p[i]

\* C8 (truncation reference): with e = floor(len(prompt) / 4), the result is
\* the prompt when e <= max_tokens, and otherwise its first k characters, k
\* the floor of len(prompt) * (max_tokens / e) * token_buffer; 1000
\* characters with max_tokens 100 and token_buffer 0.9 give the first 360.
PromptTruncation ==
    lastOp = "optimize_prompt" =>
        LET e == Len(prompt) \div 4
        IN /\ e <= max_tokens => ret_prompt = prompt
           /\ e > max_tokens =>
                \E k \in 0..Len(prompt) :
                    /\ k * e * 10 <= Len(prompt) * max_tokens * token_buffer
                    /\ Len(prompt) * max_tokens * token_buffer < (k + 1) * e * 10
                    /\ IsPrefixOfLength(ret_prompt, prompt, k)
           /\ (Len(prompt) = 1000 /\ max_tokens = 100 /\ token_buffer = 9)
                => IsPrefixOfLength(ret_prompt, prompt, 360)

\* The 1000-character prompt has been cut to 360 characters.
PromptTruncationWitness ==
    /\ lastOp = "optimize_prompt"
    /\ Len(prompt) = 1000
    /\ max_tokens = 100
    /\ token_buffer = 9
    /\ Len(ret_prompt) = 360

\* C12 (fits the budget, idempotent): for max_tokens >= 0 and token_buffer in
\* (0, 1], the result of optimize_prompt is a prefix of the prompt whose
\* estimate_tokens is at most max_tokens, and optimize_prompt applied to that
\* result returns it unchanged.
PromptFitsBudget ==
    /\ lastOp = "optimize_prompt" =>
          /\ IsPrefixOfLength(ret_prompt, prompt, Len(ret_prompt))
          /\ Len(ret_prompt) < 4 * (max_tokens + 1)
    /\ lastOp = "optimize_again" => ret_prompt = prompt

\* The 360 characters cut from the 1000-character prompt have been passed
\* through optimize_prompt again.
PromptFitsBudgetWitness ==
    /\ lastOp = "optimize_again"
    /\ max_tokens = 100
    /\ Len(prompt) = 360
    /\ ret_prompt = prompt

(***************************************************************************)
(* Properties of concurrent callers, under SpecCallers.                    *)
(***************************************************************************)

\* No date has more recorded requests than max_requests_per_day.
RecordedWithinQuota ==
    \A d \in DOMAIN usage_history :
        usage_history[d].requests <= max_daily_requests

\* No date has more track_usage calls than max_requests_per_day.
CallsWithinQuota == \A d \in Dates : tracked[d].requests <= max_daily_requests

\* C11 (quota under the serialized protocol): when every caller runs
\* should_use_llm -> enrichment -> track_usage under one lock and tracks only
\* after should_use_llm returned true, the request count of no date exceeds
\* max_requests_per_day.
QuotaNeverExceeded == serialized => (RecordedWithinQuota /\ CallsWithinQuota)

\* Under the lock the quota of today is used up and a caller has just been
\* refused.
QuotaNeverExceededWitness ==
    /\ serialized
    /\ lastOp = "should_use_llm"
    /\ ~ret_should
    /\ today \in DOMAIN usage_history
    /\ usage_history[today].requests = max_daily_requests
    /\ max_daily_requests >= 2

\* The second half of C11, as the statement that fails: without the lock the
\* recorded count would stay within max_requests_per_day as well.
QuotaHeldWithoutLock == ~serialized => RecordedWithinQuota

====
